---- MODULE Spec2Model ----
(***************************************************************************)
(* A model of the ucloud-sandbox Python SDK: the envd response classifier  *)
(* (envd/api.py), the desktop polling helper, the key mapping and the VNC  *)
(* stream object (desktop/main.py).                                        *)
(*                                                                         *)
(* Python values: an optional value is a tuple, None == <<>> and           *)
(* Some(v) == <<v>>, so that None never compares equal to a string.        *)
(***************************************************************************)
EXTENDS Integers, Sequences, FiniteSets, TLC

VARIABLES
    \* ---- envd/api.py -------------------------------------------------
    res,        \* the httpx.Response handed to the classifier
    res_read,   \* whether the body has been drained by read() / aread()
    message,    \* local `get_message(res)` of the blocking variant
    exc,        \* what handle_envd_api_exception did with res
    aexc,       \* what ahandle_envd_api_exception did with res
    \* ---- desktop/main.py, Sandbox._wait_and_verify --------------------
    w_pc,       \* "idle", "loop" (at the while test), "sleep", "done", "raised"
    timeout,    \* argument, in ticks
    interval,   \* argument, in ticks
    on_result,  \* argument: the predicate over the probe's CommandResult
    elapsed,    \* local
    history,    \* the probes issued: the command's result, elapsed and sleeps then
    sleeps,     \* the time.sleep(interval) calls made
    ret,        \* the value returned, None until then
    \* ---- desktop/main.py, Sandbox.press -------------------------------
    key,        \* the argument of the last press(key), a str or a list; None before
    command,    \* the command the last press ran
    \* ---- desktop/main.py, _VNCServer ----------------------------------
    vnc_pc,     \* where the running start() or stop() is, "idle" between calls
    op,         \* the call in progress, or the last one, with its arguments
    result,     \* how the last call ended; Running during a call
    pre,        \* the object's fields when the call was entered
    cmds,       \* the commands the call has run in the sandbox so far
    detected,   \* what _wait_for_port returned to the last start()
    starts,     \* start() calls made
    novnc_handle, vnc_port, port, novnc_auth_enabled, novnc_password, url,
    x11vnc_running, \* whether an x11vnc process exists in the sandbox
    passwd_file,    \* the password stored in ~/.vnc/passwd
    procs,      \* the proxy processes the object launched, by pid: the port
                \* and "starting", "listening" or "killed" (by handle.kill())
    \* the mouse click operations of the desktop Sandbox
    click,        \* the call made: its name and its x and y arguments
    click_cmds,   \* the commands the call ran, in order
    click_result, \* how the call ended
    mouse         \* the pointer's position on the desktop

envd_vars == <<res, res_read, message, exc, aexc>>

wait_vars == <<w_pc, timeout, interval, on_result, elapsed, history, sleeps, ret>>

key_vars == <<key, command>>

vnc_vars == <<vnc_pc, op, result, pre, cmds, detected, starts, novnc_handle, vnc_port,
              port, novnc_auth_enabled, novnc_password, url, x11vnc_running,
              passwd_file, procs>>

click_vars == <<click, click_cmds, click_result, mouse>>

vars == <<envd_vars, wait_vars, key_vars, vnc_vars, click_vars>>

None == <<>>
Some(v) == <<v>>

(***************************************************************************)
(* envd/api.py                                                             *)
(***************************************************************************)

\* Outcomes of a call: a returned value, or an exception that left the call.
Returned(v) == [t |-> "returned", value |-> v]
Raised(e) == [t |-> "raised", exc |-> e]
NotCalled == [t |-> "not_called"]

\* The status codes the responses of the model carry.
StatusCodes == {200, 204, 299, 301, 400, 401, 403, 404, 429, 500, 502, 503, 507}

\* httpx.Response.is_success: a 2xx status code.
is_success(r) == 200 <= r.status_code /\ r.status_code <= 299

\* Header names as the server may spell them, and httpx's case folding of them.
HeaderNames == {"X-Trace-ID", "x-trace-id", "X-TRACE-ID", "Content-Type"}

LowerHeaderName(n) ==
    CASE n = "X-Trace-ID" -> "x-trace-id"
      [] n = "x-trace-id" -> "x-trace-id"
      [] n = "X-TRACE-ID" -> "x-trace-id"
      [] n = "Content-Type" -> "content-type"

\* The values of the headers named `name` (up to case), in order, joined by ", ".
RECURSIVE JoinValues(_, _)
JoinValues(headers, name) ==
    IF headers = <<>> THEN None
    ELSE LET rest == JoinValues(Tail(headers), name)
             h == Head(headers)
         IN  IF LowerHeaderName(h[1]) # LowerHeaderName(name) THEN rest
             ELSE IF rest = None THEN Some(h[2])
             ELSE Some(h[2] \o ", " \o rest[1])

\* httpx.Headers.get(key): the header's value, looked up case-insensitively
\* (several headers of that name are joined), None without one. headers is a
\* sequence of <<name, value>>.
HeadersGet(headers, name) == JoinValues(headers, name)

\* Python truthiness of an Optional[str], and `a or b`.
Truthy(o) == o # None /\ o[1] # ""
PyOr(a, b) == IF Truthy(a) THEN a ELSE b

\* Response bodies: the raw text and what json.loads makes of it.
\*   invalid: json() raises JSONDecodeError;  object: a dict (its keys and
\*   values in `fields`);  array, number, string, null: valid JSON, no dict.
Bodies ==
    { [text |-> "not found", json |-> [t |-> "invalid"]],
      [text |-> "", json |-> [t |-> "invalid"]],
      [text |-> "{\"message\": \"boom\"}",
       json |-> [t |-> "object", fields |-> [message |-> "boom"]]],
      [text |-> "{\"message\": \"\", \"code\": 7}",
       json |-> [t |-> "object", fields |-> [message |-> "", code |-> "7"]]],
      [text |-> "{\"code\": 7}",
       json |-> [t |-> "object", fields |-> [code |-> "7"]]],
      [text |-> "[]", json |-> [t |-> "array"]],
      [text |-> "404", json |-> [t |-> "number"]],
      [text |-> "null", json |-> [t |-> "null"]] }

TraceValues == {"", "t-1"}

\* Header lists of at most MaxHeaders headers.
MaxHeaders == 2

HeaderLists ==
    UNION { [1..n -> HeaderNames \X TraceValues] : n \in 0..MaxHeaders }

Responses ==
    [status_code : StatusCodes, headers : HeaderLists, body : Bodies]

\* dict.get(key, default)
DictGet(fields, k, default) ==
    IF k \in DOMAIN fields THEN fields[k] ELSE default

get_message_text_only(e) == Returned(e.body.text)

\* get_message: e.json().get("message", e.text), e.text on JSONDecodeError.
\* A JSON value that is no dict has no .get: the AttributeError is not caught.
get_message(e) ==
    CASE e.body.json.t = "invalid" -> Returned(e.body.text)
      [] e.body.json.t = "object" ->
            Returned(DictGet(e.body.json.fields, "message", e.body.text))
      [] OTHER -> Raised("AttributeError")

RateLimitNotice == ": The requests are being rate limited."

ApiError(kind, msg, trace_id) ==
    [kind |-> kind, message |-> msg, trace_id |-> trace_id]

\* exceptions.format_sandbox_timeout_exception: the sandbox-timeout error
\* built from the message, with the trace id.
format_sandbox_timeout_exception(msg, trace_id) ==
    ApiError("SandboxTimeout", msg, trace_id)

format_envd_api_exception_drops_trace(status_code, msg, trace_id) ==
    CASE status_code = 400 -> ApiError("InvalidArgument", msg, trace_id)
      [] status_code = 401 -> ApiError("AuthenticationFailed", msg, trace_id)
      [] status_code = 404 -> ApiError("NotFound", msg, trace_id)
      [] status_code = 429 -> ApiError("Generic", msg \o RateLimitNotice, None)
      [] status_code = 502 -> format_sandbox_timeout_exception(msg, trace_id)
      [] status_code = 507 -> ApiError("InsufficientStorage", msg, trace_id)
      [] OTHER -> ApiError("Generic", ToString(status_code) \o ": " \o msg, None)

format_envd_api_exception(status_code, msg, trace_id) ==
    CASE status_code = 400 -> ApiError("InvalidArgument", msg, trace_id)
      [] status_code = 401 -> ApiError("AuthenticationFailed", msg, trace_id)
      [] status_code = 404 -> ApiError("NotFound", msg, trace_id)
      [] status_code = 429 -> ApiError("Generic", msg \o RateLimitNotice, trace_id)
      [] status_code = 502 -> format_sandbox_timeout_exception(msg, trace_id)
      [] status_code = 507 -> ApiError("InsufficientStorage", msg, trace_id)
      [] OTHER -> ApiError("Generic", ToString(status_code) \o ": " \o msg, trace_id)

\* handle_envd_api_exception(res): None for a success; otherwise the body
\* is read, the trace id and the message are taken and the error is built.
\* The outcome is Returned(None), Returned(Some(error)) or Raised(...).
handle_envd_api_exception ==
    /\ exc = NotCalled
    /\ IF is_success(res)
         THEN /\ exc' = Returned(None)
              /\ UNCHANGED <<res_read, message>>
         ELSE LET trace_id == PyOr(HeadersGet(res.headers, "X-Trace-ID"),
                                   HeadersGet(res.headers, "x-trace-id"))
                  m == get_message(res)
              IN  /\ res_read' = TRUE
                  /\ message' = m
                  /\ exc' = IF m.t = "raised" THEN m
                            ELSE Returned(Some(format_envd_api_exception(
                                     res.status_code, m.value, trace_id)))
    /\ UNCHANGED <<res, aexc>>
    /\ UNCHANGED <<wait_vars, key_vars, vnc_vars, click_vars>>

\* ahandle_envd_api_exception(res): the same, draining the body by aread().
ahandle_envd_api_exception ==
    /\ aexc = NotCalled
    /\ IF is_success(res)
         THEN /\ aexc' = Returned(None)
              /\ UNCHANGED res_read
         ELSE LET trace_id == PyOr(HeadersGet(res.headers, "X-Trace-ID"),
                                   HeadersGet(res.headers, "x-trace-id"))
                  m == get_message(res)
              IN  /\ res_read' = TRUE
                  /\ aexc' = IF m.t = "raised" THEN m
                             ELSE Returned(Some(format_envd_api_exception(
                                      res.status_code, m.value, trace_id)))
    /\ UNCHANGED <<res, message, exc>>
    /\ UNCHANGED <<wait_vars, key_vars, vnc_vars, click_vars>>

EnvdIdle ==
    /\ res = [status_code |-> 200, headers |-> <<>>,
              body |-> [text |-> "", json |-> [t |-> "invalid"]]]
    /\ res_read = FALSE
    /\ message = NotCalled
    /\ exc = NotCalled
    /\ aexc = NotCalled

EnvdInit ==
    /\ res \in Responses
    /\ res_read = FALSE
    /\ message = NotCalled
    /\ exc = NotCalled
    /\ aexc = NotCalled

EnvdNext ==
    \/ handle_envd_api_exception
    \/ ahandle_envd_api_exception

(***************************************************************************)
(* desktop/main.py: Sandbox._wait_and_verify                               *)
(* Time is counted in ticks; timeout and interval are whole ticks, so that *)
(* timeout / interval may be any positive ratio.                           *)
(***************************************************************************)

MaxTimeout == 5
MaxInterval == 2

\* What the probe command can do: its exit code and its stdout.
ProbeResults == [exit_code : {0, 1}, stdout : {"", "LISTEN"}]

\* The predicates callers pass: create() (exit_zero), _wait_for_port
\* (stdout_nonempty) and a match of the output (stdout_has_listen).
Predicates == {"exit_zero", "stdout_nonempty", "stdout_has_listen"}

\* on_result(r) for each of the predicates.
OnResult(p, r) ==
    CASE p = "exit_zero" -> r.exit_code = 0
      [] p = "stdout_nonempty" -> r.stdout # ""
      [] p = "stdout_has_listen" -> r.stdout = "LISTEN"

\* commands.run(cmd) in the foreground: the CommandResult, or
\* CommandExitException when the command exits non-zero.
commands_run(r) ==
    IF r.exit_code # 0 THEN Raised("CommandExitException") ELSE Returned(r)

WhileCond_inclusive(el, to) == el <= to

WhileCond_early(el, to) == el + 1 < to

\* while elapsed < timeout
WhileCond(el, to) == el < to

TryProbe_abort(p, r) ==
    LET out == commands_run(r)
    IN  IF out.t = "raised" THEN "raise"
        ELSE IF OnResult(p, out.value) THEN "return_true" ELSE "retry"

\* The try block of the loop body: return True when on_result holds of the
\* result; a CommandExitException is swallowed and the loop goes on.
TryProbe(p, r) ==
    LET out == commands_run(r)
    IN  IF out.t = "raised" THEN "retry"
        ELSE IF OnResult(p, out.value) THEN "return_true" ELSE "retry"

\* _wait_and_verify(cmd, on_result, timeout, interval) is entered with
\* timeout t, interval i and predicate p: elapsed = 0.
WaitEnter(t, i, p) ==
    /\ timeout' = t
    /\ interval' = i
    /\ on_result' = p
    /\ elapsed' = 0
    /\ history' = <<>>
    /\ sleeps' = 0
    /\ ret' = None
    /\ w_pc' = "loop"

\* The call has returned to its caller: its locals are gone.
WaitLeave ==
    /\ w_pc' = "idle"
    /\ timeout' = 0
    /\ interval' = 0
    /\ on_result' = "exit_zero"
    /\ elapsed' = 0
    /\ history' = <<>>
    /\ sleeps' = 0
    /\ ret' = None

\* One pass of the while test and the try block, the probe command giving r.
WaitProbeWith(r) ==
    /\ w_pc = "loop"
    /\ WhileCond(elapsed, timeout)
    /\ LET o == TryProbe(on_result, r)
       IN  /\ history' = Append(history,
                                [result |-> r, at |-> elapsed, sleeps |-> sleeps])
           /\ CASE o = "return_true" -> w_pc' = "done" /\ ret' = Some(TRUE)
                [] o = "retry" -> w_pc' = "sleep" /\ ret' = ret
                [] o = "raise" -> w_pc' = "raised" /\ ret' = ret
    /\ UNCHANGED <<timeout, interval, on_result, elapsed, sleeps>>

\* time.sleep(interval); elapsed += interval
WaitSleepStep ==
    /\ w_pc = "sleep"
    /\ sleeps' = sleeps + 1
    /\ elapsed' = elapsed + interval
    /\ w_pc' = "loop"
    /\ UNCHANGED <<timeout, interval, on_result, history, ret>>

\* The while test fails: return False.
WaitReturnFalseStep ==
    /\ w_pc = "loop"
    /\ ~WhileCond(elapsed, timeout)
    /\ ret' = Some(FALSE)
    /\ w_pc' = "done"
    /\ UNCHANGED <<timeout, interval, on_result, elapsed, history, sleeps>>

\* The helper called on its own, with any arguments and any probe results.
WaitCall ==
    /\ w_pc = "idle"
    /\ \E t \in 1..MaxTimeout, i \in 1..MaxInterval, p \in Predicates :
          WaitEnter(t, i, p)
    /\ UNCHANGED <<envd_vars, key_vars, vnc_vars, click_vars>>

WaitProbe ==
    /\ \E r \in ProbeResults : WaitProbeWith(r)
    /\ UNCHANGED <<envd_vars, key_vars, vnc_vars, click_vars>>

WaitSleep ==
    /\ WaitSleepStep
    /\ UNCHANGED <<envd_vars, key_vars, vnc_vars, click_vars>>

WaitReturnFalse ==
    /\ WaitReturnFalseStep
    /\ UNCHANGED <<envd_vars, key_vars, vnc_vars, click_vars>>

WaitIdle ==
    /\ w_pc = "idle"
    /\ timeout = 0
    /\ interval = 0
    /\ on_result = "exit_zero"
    /\ elapsed = 0
    /\ history = <<>>
    /\ sleeps = 0
    /\ ret = None

WaitNext ==
    \/ WaitCall
    \/ WaitProbe
    \/ WaitSleep
    \/ WaitReturnFalse

(***************************************************************************)
(* desktop/main.py: KEYS, map_key, Sandbox.press                           *)
(* A string is the sequence of its characters, so that lower() and the     *)
(* table lookup act on the characters.                                     *)
(***************************************************************************)

\* The rows of KEYS: <<name, key symbol>>.
KEYS_items ==
    {
      <<<<"a", "l", "t">>, <<"A", "l", "t", "_", "L">>>>,
      <<<<"a", "l", "t", "_", "l", "e", "f", "t">>, <<"A", "l", "t", "_", "L">>>>,
      <<<<"a", "l", "t", "_", "r", "i", "g", "h", "t">>, <<"A", "l", "t", "_", "R">>>>,
      <<<<"b", "a", "c", "k", "s", "p", "a", "c", "e">>, <<"B", "a", "c", "k", "S", "p", "a", "c", "e">>>>,
      <<<<"b", "r", "e", "a", "k">>, <<"P", "a", "u", "s", "e">>>>,
      <<<<"c", "a", "p", "s", "_", "l", "o", "c", "k">>, <<"C", "a", "p", "s", "_", "L", "o", "c", "k">>>>,
      <<<<"c", "m", "d">>, <<"S", "u", "p", "e", "r", "_", "L">>>>,
      <<<<"c", "o", "m", "m", "a", "n", "d">>, <<"S", "u", "p", "e", "r", "_", "L">>>>,
      <<<<"c", "o", "n", "t", "r", "o", "l">>, <<"C", "o", "n", "t", "r", "o", "l", "_", "L">>>>,
      <<<<"c", "o", "n", "t", "r", "o", "l", "_", "l", "e", "f", "t">>, <<"C", "o", "n", "t", "r", "o", "l", "_", "L">>>>,
      <<<<"c", "o", "n", "t", "r", "o", "l", "_", "r", "i", "g", "h", "t">>, <<"C", "o", "n", "t", "r", "o", "l", "_", "R">>>>,
      <<<<"c", "t", "r", "l">>, <<"C", "o", "n", "t", "r", "o", "l", "_", "L">>>>,
      <<<<"d", "e", "l">>, <<"D", "e", "l", "e", "t", "e">>>>,
      <<<<"d", "e", "l", "e", "t", "e">>, <<"D", "e", "l", "e", "t", "e">>>>,
      <<<<"d", "o", "w", "n">>, <<"D", "o", "w", "n">>>>,
      <<<<"e", "n", "d">>, <<"E", "n", "d">>>>,
      <<<<"e", "n", "t", "e", "r">>, <<"R", "e", "t", "u", "r", "n">>>>,
      <<<<"e", "s", "c">>, <<"E", "s", "c", "a", "p", "e">>>>,
      <<<<"e", "s", "c", "a", "p", "e">>, <<"E", "s", "c", "a", "p", "e">>>>,
      <<<<"f", "1">>, <<"F", "1">>>>,
      <<<<"f", "2">>, <<"F", "2">>>>,
      <<<<"f", "3">>, <<"F", "3">>>>,
      <<<<"f", "4">>, <<"F", "4">>>>,
      <<<<"f", "5">>, <<"F", "5">>>>,
      <<<<"f", "6">>, <<"F", "6">>>>,
      <<<<"f", "7">>, <<"F", "7">>>>,
      <<<<"f", "8">>, <<"F", "8">>>>,
      <<<<"f", "9">>, <<"F", "9">>>>,
      <<<<"f", "1", "0">>, <<"F", "1", "0">>>>,
      <<<<"f", "1", "1">>, <<"F", "1", "1">>>>,
      <<<<"f", "1", "2">>, <<"F", "1", "2">>>>,
      <<<<"h", "o", "m", "e">>, <<"H", "o", "m", "e">>>>,
      <<<<"i", "n", "s", "e", "r", "t">>, <<"I", "n", "s", "e", "r", "t">>>>,
      <<<<"l", "e", "f", "t">>, <<"L", "e", "f", "t">>>>,
      <<<<"m", "e", "n", "u">>, <<"M", "e", "n", "u">>>>,
      <<<<"m", "e", "t", "a">>, <<"M", "e", "t", "a", "_", "L">>>>,
      <<<<"n", "u", "m", "_", "l", "o", "c", "k">>, <<"N", "u", "m", "_", "L", "o", "c", "k">>>>,
      <<<<"p", "a", "g", "e", "_", "d", "o", "w", "n">>, <<"P", "a", "g", "e", "_", "D", "o", "w", "n">>>>,
      <<<<"p", "a", "g", "e", "_", "u", "p">>, <<"P", "a", "g", "e", "_", "U", "p">>>>,
      <<<<"p", "a", "u", "s", "e">>, <<"P", "a", "u", "s", "e">>>>,
      <<<<"p", "r", "i", "n", "t">>, <<"P", "r", "i", "n", "t">>>>,
      <<<<"r", "i", "g", "h", "t">>, <<"R", "i", "g", "h", "t">>>>,
      <<<<"s", "c", "r", "o", "l", "l", "_", "l", "o", "c", "k">>, <<"S", "c", "r", "o", "l", "l", "_", "L", "o", "c", "k">>>>,
      <<<<"s", "h", "i", "f", "t">>, <<"S", "h", "i", "f", "t", "_", "L">>>>,
      <<<<"s", "h", "i", "f", "t", "_", "l", "e", "f", "t">>, <<"S", "h", "i", "f", "t", "_", "L">>>>,
      <<<<"s", "h", "i", "f", "t", "_", "r", "i", "g", "h", "t">>, <<"S", "h", "i", "f", "t", "_", "R">>>>,
      <<<<"s", "p", "a", "c", "e">>, <<"s", "p", "a", "c", "e">>>>,
      <<<<"s", "u", "p", "e", "r">>, <<"S", "u", "p", "e", "r", "_", "L">>>>,
      <<<<"s", "u", "p", "e", "r", "_", "l", "e", "f", "t">>, <<"S", "u", "p", "e", "r", "_", "L">>>>,
      <<<<"s", "u", "p", "e", "r", "_", "r", "i", "g", "h", "t">>, <<"S", "u", "p", "e", "r", "_", "R">>>>,
      <<<<"t", "a", "b">>, <<"T", "a", "b">>>>,
      <<<<"u", "p">>, <<"U", "p">>>>,
      <<<<"w", "i", "n">>, <<"S", "u", "p", "e", "r", "_", "L">>>>,
      <<<<"w", "i", "n", "d", "o", "w", "s">>, <<"S", "u", "p", "e", "r", "_", "L">>>>
    }

\* `k in KEYS` and KEYS[k]
InKEYS(k) == \E it \in KEYS_items : it[1] = k
KEYS(k) == (CHOOSE it \in KEYS_items : it[1] = k)[2]

UpperToLower ==
    ("A" :> "a") @@
    ("B" :> "b") @@
    ("C" :> "c") @@
    ("D" :> "d") @@
    ("E" :> "e") @@
    ("F" :> "f") @@
    ("G" :> "g") @@
    ("H" :> "h") @@
    ("I" :> "i") @@
    ("J" :> "j") @@
    ("K" :> "k") @@
    ("L" :> "l") @@
    ("M" :> "m") @@
    ("N" :> "n") @@
    ("O" :> "o") @@
    ("P" :> "p") @@
    ("Q" :> "q") @@
    ("R" :> "r") @@
    ("S" :> "s") @@
    ("T" :> "t") @@
    ("U" :> "u") @@
    ("V" :> "v") @@
    ("W" :> "w") @@
    ("X" :> "x") @@
    ("Y" :> "y") @@
    ("Z" :> "z")

\* str.lower() on ASCII text
LowerChar(c) == IF c \in DOMAIN UpperToLower THEN UpperToLower[c] ELSE c
Lower(str) == [i \in 1..Len(str) |-> LowerChar(str[i])]

\* map_key(key)
map_key(k) ==
    LET lower_key == Lower(k)
    IN  IF InKEYS(lower_key) THEN KEYS(lower_key) ELSE lower_key

\* Names a caller may pass: every string of at most MaxKeyLen characters of
\* KeyAlphabet, and some longer names in several casings.
MaxKeyLen == 3
KeyAlphabet == {"u", "U", "p", "P", "f", "1", "x", "_"}

LongNames ==
    { <<"c", "t", "r", "l">>, <<"C", "T", "R", "L">>, <<"C", "t", "r", "l">>,
      <<"u", "n", "k", "n", "o", "w", "n", "_", "k", "e", "y">>,
      <<"R", "e", "t", "u", "r", "n">>,
      <<"P", "a", "g", "e", "_", "U", "p">>,
      <<"p", "a", "g", "e", "_", "u", "p">>,
      <<"X", "F", "8", "6", "B", "a", "c", "k">> }

KeyNames ==
    LongNames \cup UNION { [1..n -> KeyAlphabet] : n \in 1..MaxKeyLen }

\* "+".join(parts)
RECURSIVE JoinPlus(_)
JoinPlus(parts) ==
    IF parts = <<>> THEN <<>>
    ELSE IF Len(parts) = 1 THEN parts[1]
    ELSE parts[1] \o <<"+">> \o JoinPlus(Tail(parts))

\* press(key) with a single key name
PressKey ==
    \E k \in KeyNames :
        /\ key' = Some([str |-> k])
        /\ command' = <<"xdotool key ", map_key(k)>>
        /\ UNCHANGED <<envd_vars, wait_vars, vnc_vars, click_vars>>

\* press(key) with a list of key names
PressList ==
    \E k1 \in LongNames, k2 \in LongNames :
        /\ key' = Some([list |-> <<k1, k2>>])
        /\ command' = <<"xdotool key ", JoinPlus(<<map_key(k1), map_key(k2)>>)>>
        /\ UNCHANGED <<envd_vars, wait_vars, vnc_vars, click_vars>>

KeyIdle ==
    /\ key = None
    /\ command = None

KeyNext ==
    \/ PressKey
    \/ PressList

(***************************************************************************)
(* desktop/main.py: _VNCServer (Sandbox.stream)                            *)
(* start and stop run remote commands one after the other; between two of  *)
(* them the sandbox may change under the object: another SDK instance      *)
(* starts or kills the x11vnc server, the server dies, the proxy comes up  *)
(* or never does. Each action is one remote command with the local code    *)
(* that follows it up to the next remote command.                          *)
(***************************************************************************)

\* start() calls made at most.
MaxStarts == 2

DefaultVncPort == 5900
DefaultPort == 6080
\* _wait_and_verify's defaults: timeout = 10 seconds, interval = 0.5 seconds,
\* which is one tick.
DefaultTimeout == 10
DefaultInterval == 1
TicksOf(seconds) == 2 * seconds

\* The arguments callers pass to start().
VncPortArgs == {None, Some(5901)}
PortArgs == {None, Some(6081)}
WindowIdArgs == {None, Some("0x2a")}

\* `a or b` for an Optional[int] argument (no port is 0 here).
OrDefault(arg, default) == IF arg # None THEN arg[1] ELSE default

\* f"https://{desktop.get_host(port)}/vnc.html"
UrlOf(p) == <<"https://", <<"host", p>>, "/vnc.html">>

\* The object's fields.
Obj ==
    [novnc_handle |-> novnc_handle, vnc_port |-> vnc_port, port |-> port,
     novnc_auth_enabled |-> novnc_auth_enabled, novnc_password |-> novnc_password,
     url |-> url]

Running == [t |-> "running"]

\* netstat -tuln | grep ":{port} ": a line (exit code 0) when a proxy of the
\* sandbox listens on the port, nothing (grep's exit code 1) otherwise.
Netstat(p) ==
    IF \E i \in 1..Len(procs) : procs[i].port = p /\ procs[i].state = "listening"
      THEN [exit_code |-> 0, stdout |-> "LISTEN"]
      ELSE [exit_code |-> 1, stdout |-> ""]

\* _check_vnc_running(): pgrep -x x11vnc exits with 0 when the server
\* process exists; CommandExitException means False.
check_vnc_running == x11vnc_running

\* _generate_password(): a fresh random string; the n-th one generated.
generate_password(n) == <<"password", n>>

VncOthers == <<envd_vars, key_vars, click_vars>>

StartCheck_UpdatesFirst ==
    /\ vnc_pc = "idle"
    /\ starts < MaxStarts
    /\ \E a_vnc_port \in VncPortArgs, a_port \in PortArgs,
          require_auth \in BOOLEAN, window_id \in WindowIdArgs :
         /\ op' = [name |-> "start", vnc_port |-> a_vnc_port, port |-> a_port,
                   require_auth |-> require_auth, window_id |-> window_id]
         /\ vnc_port' = OrDefault(a_vnc_port, vnc_port)
         /\ port' = OrDefault(a_port, port)
         /\ novnc_auth_enabled' = (require_auth \/ novnc_auth_enabled)
         /\ novnc_password' =
               IF require_auth THEN Some(generate_password(starts + 1)) ELSE None
         /\ url' = UrlOf(port')
         /\ IF check_vnc_running
              THEN /\ result' = Raised("RuntimeError")
                   /\ vnc_pc' = "idle"
              ELSE /\ result' = Running
                   /\ vnc_pc' = IF novnc_auth_enabled' THEN "start_mkdir" ELSE "start_vnc"
    /\ starts' = starts + 1
    /\ pre' = Obj
    /\ cmds' = <<[cmd |-> "pgrep -x x11vnc", found |-> check_vnc_running]>>
    /\ detected' = None
    /\ UNCHANGED <<novnc_handle, x11vnc_running, passwd_file, procs>>
    /\ UNCHANGED <<wait_vars, VncOthers>>

\* start(vnc_port, port, require_auth, window_id): the check for a running
\* stream, and the update of the parameters and of the URL that follows it.
StartCheck ==
    /\ vnc_pc = "idle"
    /\ starts < MaxStarts
    /\ \E a_vnc_port \in VncPortArgs, a_port \in PortArgs,
          require_auth \in BOOLEAN, window_id \in WindowIdArgs :
         /\ op' = [name |-> "start", vnc_port |-> a_vnc_port, port |-> a_port,
                   require_auth |-> require_auth, window_id |-> window_id]
         /\ IF check_vnc_running
              THEN /\ result' = Raised("RuntimeError")
                   /\ vnc_pc' = "idle"
                   /\ UNCHANGED <<vnc_port, port, novnc_auth_enabled,
                                  novnc_password, url>>
              ELSE /\ vnc_port' = OrDefault(a_vnc_port, vnc_port)
                   /\ port' = OrDefault(a_port, port)
                   /\ novnc_auth_enabled' = (require_auth \/ novnc_auth_enabled)
                   /\ novnc_password' =
                         IF require_auth THEN Some(generate_password(starts + 1))
                         ELSE None
                   /\ url' = UrlOf(port')
                   /\ result' = Running
                   /\ vnc_pc' = IF novnc_auth_enabled' THEN "start_mkdir"
                                ELSE "start_vnc"
    /\ starts' = starts + 1
    /\ pre' = Obj
    /\ cmds' = <<[cmd |-> "pgrep -x x11vnc", found |-> check_vnc_running]>>
    /\ detected' = None
    /\ UNCHANGED <<novnc_handle, x11vnc_running, passwd_file, procs>>
    /\ UNCHANGED <<wait_vars, VncOthers>>

\* commands.run("mkdir -p ~/.vnc")
StartMkdir ==
    /\ vnc_pc = "start_mkdir"
    /\ cmds' = Append(cmds, [cmd |-> "mkdir -p ~/.vnc"])
    /\ vnc_pc' = "start_storepasswd"
    /\ UNCHANGED <<op, result, pre, detected, starts, novnc_handle, vnc_port, port,
                   novnc_auth_enabled, novnc_password, url, x11vnc_running,
                   passwd_file, procs>>
    /\ UNCHANGED <<wait_vars, VncOthers>>

\* commands.run(f"x11vnc -storepasswd {self._novnc_password} ~/.vnc/passwd"):
\* the f-string writes a None password as the text None.
StartStorePasswd ==
    /\ vnc_pc = "start_storepasswd"
    /\ LET text == IF novnc_password = None THEN "None" ELSE novnc_password[1]
       IN  /\ cmds' = Append(cmds, [cmd |-> "x11vnc -storepasswd", password |-> text])
           /\ passwd_file' = Some(text)
    /\ vnc_pc' = "start_vnc"
    /\ UNCHANGED <<op, result, pre, detected, starts, novnc_handle, vnc_port, port,
                   novnc_auth_enabled, novnc_password, url, x11vnc_running, procs>>
    /\ UNCHANGED <<wait_vars, VncOthers>>

\* commands.run(vnc_command): x11vnc -bg ... starts the server, or exits
\* non-zero and start ends with CommandExitException.
StartVnc ==
    /\ vnc_pc = "start_vnc"
    /\ cmds' = Append(cmds,
          [cmd |-> "x11vnc -bg", rfbport |-> vnc_port,
           pwd_flag |-> IF novnc_auth_enabled THEN "-usepw" ELSE "-nopw",
           window_id_flag |-> IF op.window_id # None
                                THEN <<"-id ", op.window_id[1]>> ELSE <<>>])
    /\ \E ok \in BOOLEAN :
          IF ok THEN /\ x11vnc_running' = TRUE
                     /\ vnc_pc' = "start_proxy"
                     /\ result' = result
                ELSE /\ x11vnc_running' = x11vnc_running
                     /\ vnc_pc' = "idle"
                     /\ result' = Raised("CommandExitException")
    /\ UNCHANGED <<op, pre, detected, starts, novnc_handle, vnc_port, port,
                   novnc_auth_enabled, novnc_password, url, passwd_file, procs>>
    /\ UNCHANGED <<wait_vars, VncOthers>>

\* self.__novnc_handle = commands.run(novnc_command, background=True, timeout=0),
\* and the entry into _wait_for_port(self._port).
StartProxy ==
    /\ vnc_pc = "start_proxy"
    /\ cmds' = Append(cmds,
          [cmd |-> "novnc_proxy", vnc |-> vnc_port, listen |-> port,
           background |-> TRUE])
    /\ procs' = Append(procs, [port |-> port, state |-> "starting"])
    /\ novnc_handle' = Some(Len(procs) + 1)
    /\ WaitEnter(TicksOf(DefaultTimeout), DefaultInterval, "stdout_nonempty")
    /\ vnc_pc' = "start_wait"
    /\ UNCHANGED <<op, result, pre, detected, starts, vnc_port, port,
                   novnc_auth_enabled, novnc_password, url, x11vnc_running,
                   passwd_file>>
    /\ UNCHANGED VncOthers

vnc_fields == <<op, result, pre, cmds, detected, starts, novnc_handle, vnc_port, port,
                novnc_auth_enabled, novnc_password, url, x11vnc_running,
                passwd_file, procs>>

\* _wait_for_port: one probe of the port by _wait_and_verify.
StartPoll ==
    /\ vnc_pc = "start_wait"
    /\ WaitProbeWith(Netstat(port))
    /\ UNCHANGED <<vnc_pc, vnc_fields, VncOthers>>

\* _wait_for_port: the sleep between two probes.
StartSleep ==
    /\ vnc_pc = "start_wait"
    /\ WaitSleepStep
    /\ UNCHANGED <<vnc_pc, vnc_fields, VncOthers>>

\* _wait_for_port: the poll is exhausted.
StartPollExhausted ==
    /\ vnc_pc = "start_wait"
    /\ WaitReturnFalseStep
    /\ UNCHANGED <<vnc_pc, vnc_fields, VncOthers>>

StartFinish_NoRaise ==
    /\ vnc_pc = "start_wait"
    /\ w_pc = "done"
    /\ detected' = ret
    /\ result' = Returned(None)
    /\ vnc_pc' = "idle"
    /\ WaitLeave
    /\ UNCHANGED <<op, pre, cmds, starts, novnc_handle, vnc_port, port,
                   novnc_auth_enabled, novnc_password, url, x11vnc_running,
                   passwd_file, procs>>
    /\ UNCHANGED VncOthers

\* if not self._wait_for_port(self._port): raise TimeoutException(...)
StartFinish ==
    /\ vnc_pc = "start_wait"
    /\ w_pc = "done"
    /\ detected' = ret
    /\ result' = IF ret = Some(TRUE) THEN Returned(None)
                 ELSE Raised("TimeoutException")
    /\ vnc_pc' = "idle"
    /\ WaitLeave
    /\ UNCHANGED <<op, pre, cmds, starts, novnc_handle, vnc_port, port,
                   novnc_auth_enabled, novnc_password, url, x11vnc_running,
                   passwd_file, procs>>
    /\ UNCHANGED VncOthers

\* stop(): the check for a running server.
StopCheck ==
    /\ vnc_pc = "idle"
    /\ op' = [name |-> "stop"]
    /\ pre' = Obj
    /\ cmds' = <<[cmd |-> "pgrep -x x11vnc", found |-> check_vnc_running]>>
    /\ result' = Running
    /\ detected' = None
    /\ vnc_pc' = IF check_vnc_running THEN "stop_pkill" ELSE "stop_kill"
    /\ UNCHANGED <<starts, novnc_handle, vnc_port, port, novnc_auth_enabled,
                   novnc_password, url, x11vnc_running, passwd_file, procs>>
    /\ UNCHANGED <<wait_vars, VncOthers>>

\* commands.run("pkill x11vnc"): pkill exits non-zero when no process
\* matches, and stop ends with CommandExitException.
StopPkill ==
    /\ vnc_pc = "stop_pkill"
    /\ cmds' = Append(cmds, [cmd |-> "pkill x11vnc"])
    /\ IF x11vnc_running
         THEN /\ x11vnc_running' = FALSE
              /\ vnc_pc' = "stop_kill"
              /\ result' = result
         ELSE /\ x11vnc_running' = x11vnc_running
              /\ vnc_pc' = "idle"
              /\ result' = Raised("CommandExitException")
    /\ UNCHANGED <<op, pre, detected, starts, novnc_handle, vnc_port, port,
                   novnc_auth_enabled, novnc_password, url, passwd_file, procs>>
    /\ UNCHANGED <<wait_vars, VncOthers>>

\* if self.__novnc_handle: kill() it and forget it.
StopKill ==
    /\ vnc_pc = "stop_kill"
    /\ IF novnc_handle # None
         THEN /\ procs' = [procs EXCEPT ![novnc_handle[1]].state = "killed"]
              /\ cmds' = Append(cmds, [cmd |-> "kill", pid |-> novnc_handle[1]])
              /\ novnc_handle' = None
         ELSE UNCHANGED <<procs, cmds, novnc_handle>>
    /\ result' = Returned(None)
    /\ vnc_pc' = "idle"
    /\ UNCHANGED <<op, pre, detected, starts, vnc_port, port, novnc_auth_enabled,
                   novnc_password, url, x11vnc_running, passwd_file>>
    /\ UNCHANGED <<wait_vars, VncOthers>>

\* get_auth_key(): the password held, RuntimeError when none is held.
GetAuthKey ==
    /\ vnc_pc = "idle"
    /\ op' = [name |-> "get_auth_key"]
    /\ pre' = Obj
    /\ cmds' = <<>>
    /\ detected' = None
    /\ result' = IF novnc_password = None \/ novnc_password[1] = ""
                   THEN Raised("RuntimeError")
                   ELSE Returned(novnc_password[1])
    /\ UNCHANGED <<vnc_pc, starts, novnc_handle, vnc_port, port, novnc_auth_enabled,
                   novnc_password, url, x11vnc_running, passwd_file, procs>>
    /\ UNCHANGED <<wait_vars, VncOthers>>

\* The sandbox changes under the object: another SDK instance starts x11vnc.
ExternalStartServer ==
    /\ ~x11vnc_running
    /\ x11vnc_running' = TRUE
    /\ UNCHANGED <<vnc_pc, op, result, pre, cmds, detected, starts, novnc_handle,
                   vnc_port, port, novnc_auth_enabled, novnc_password, url,
                   passwd_file, procs>>
    /\ UNCHANGED <<wait_vars, VncOthers>>

\* The x11vnc process is killed by another SDK instance, or dies.
ServerGone ==
    /\ x11vnc_running
    /\ x11vnc_running' = FALSE
    /\ UNCHANGED <<vnc_pc, op, result, pre, cmds, detected, starts, novnc_handle,
                   vnc_port, port, novnc_auth_enabled, novnc_password, url,
                   passwd_file, procs>>
    /\ UNCHANGED <<wait_vars, VncOthers>>

\* A launched proxy binds its port and listens, when the port is free.
ProxyListens ==
    /\ \E i \in 1..Len(procs) :
          /\ procs[i].state = "starting"
          /\ \A j \in 1..Len(procs) :
                ~(procs[j].state = "listening" /\ procs[j].port = procs[i].port)
          /\ procs' = [procs EXCEPT ![i].state = "listening"]
    /\ UNCHANGED <<vnc_pc, op, result, pre, cmds, detected, starts, novnc_handle,
                   vnc_port, port, novnc_auth_enabled, novnc_password, url,
                   x11vnc_running, passwd_file>>
    /\ UNCHANGED <<wait_vars, VncOthers>>

\* _VNCServer.__init__, in a sandbox that runs no x11vnc yet.
VncIdle ==
    /\ vnc_pc = "idle"
    /\ op = [name |-> "none"]
    /\ result = NotCalled
    /\ pre = None
    /\ cmds = <<>>
    /\ detected = None
    /\ starts = 0
    /\ novnc_handle = None
    /\ vnc_port = DefaultVncPort
    /\ port = DefaultPort
    /\ novnc_auth_enabled = FALSE
    /\ novnc_password = None
    /\ url = UrlOf(DefaultPort)
    /\ x11vnc_running = FALSE
    /\ passwd_file = None
    /\ procs = <<>>

VncNext ==
    \/ StartCheck
    \/ StartMkdir
    \/ StartStorePasswd
    \/ StartVnc
    \/ StartProxy
    \/ StartPoll
    \/ StartSleep
    \/ StartPollExhausted
    \/ StartFinish
    \/ StopCheck
    \/ StopPkill
    \/ StopKill
    \/ GetAuthKey
    \/ ExternalStartServer
    \/ ServerGone
    \/ ProxyListens

(***************************************************************************)
(* desktop/main.py: left_click, double_click, right_click, middle_click     *)
(***************************************************************************)

MaxCoord == 2

\* The x and y arguments: Optional[int], None by default.
CoordArgs == {None} \cup {Some(n) : n \in 0..MaxCoord}

\* Python truth of an Optional[int]: None and 0 are false.
TruthyCoord(a) == a # None /\ a[1] # 0

\* The command each operation passes to commands.run.
ClickCommands ==
    [left_click   |-> "xdotool click 1",
     double_click |-> "xdotool click --repeat 2 1",
     right_click  |-> "xdotool click 3",
     middle_click |-> "xdotool click 2"]

\* move_mouse(x, y): the command it runs.
move_mouse(x, y) == [cmd |-> "xdotool mousemove --sync", x |-> x, y |-> y]

\* The command of a click; xdotool clicks where the pointer is.
ClickCmd(name, pos) == [cmd |-> ClickCommands[name], at |-> pos]

\* The body the four operations share:
\*     if x and y: self.move_mouse(x, y)
\*     self.commands.run("xdotool click ...")
ClickBody(name, x, y) ==
    /\ IF TruthyCoord(x) /\ TruthyCoord(y)
         THEN /\ mouse' = <<x[1], y[1]>>
              /\ click_cmds' = <<move_mouse(x[1], y[1]), ClickCmd(name, <<x[1], y[1]>>)>>
         ELSE /\ mouse' = mouse
              /\ click_cmds' = <<ClickCmd(name, mouse)>>
    /\ click_result' = Returned(None)
    /\ UNCHANGED <<envd_vars, wait_vars, key_vars, vnc_vars>>

left_click ==
    \E x \in CoordArgs, y \in CoordArgs :
        /\ click' = Some([name |-> "left_click", x |-> x, y |-> y])
        /\ ClickBody("left_click", x, y)

double_click ==
    \E x \in CoordArgs, y \in CoordArgs :
        /\ click' = Some([name |-> "double_click", x |-> x, y |-> y])
        /\ ClickBody("double_click", x, y)

\* right_click first rejects a call with exactly one of x and y.
right_click ==
    \E x \in CoordArgs, y \in CoordArgs :
        /\ click' = Some([name |-> "right_click", x |-> x, y |-> y])
        /\ IF (x = None) # (y = None)
             THEN /\ click_cmds' = <<>>
                  /\ click_result' = Raised("ValueError")
                  /\ UNCHANGED mouse
                  /\ UNCHANGED <<envd_vars, wait_vars, key_vars, vnc_vars>>
             ELSE ClickBody("right_click", x, y)

middle_click ==
    \E x \in CoordArgs, y \in CoordArgs :
        /\ click' = Some([name |-> "middle_click", x |-> x, y |-> y])
        /\ ClickBody("middle_click", x, y)

ClickIdle ==
    /\ click = None
    /\ click_cmds = <<>>
    /\ click_result = NotCalled
    /\ mouse = <<0, 0>>

\* The pointer is anywhere on the desktop when the first call is made.
ClickInit ==
    /\ click = None
    /\ click_cmds = <<>>
    /\ click_result = NotCalled
    /\ mouse \in (0..MaxCoord) \X (0..MaxCoord)

ClickNext ==
    \/ left_click
    \/ double_click
    \/ right_click
    \/ middle_click

(***************************************************************************)
(* Specifications, one per component; the other components stay idle.      *)
(***************************************************************************)

EnvdStart == EnvdInit /\ WaitIdle /\ KeyIdle /\ VncIdle /\ ClickIdle

EnvdSpec == EnvdStart /\ [][EnvdNext]_vars

WaitStart == WaitIdle /\ EnvdIdle /\ KeyIdle /\ VncIdle /\ ClickIdle

WaitSpec == WaitStart /\ [][WaitNext]_vars

KeyStart == KeyIdle /\ EnvdIdle /\ WaitIdle /\ VncIdle /\ ClickIdle

KeySpec == KeyStart /\ [][KeyNext]_vars

VncStart == VncIdle /\ EnvdIdle /\ WaitIdle /\ KeyIdle /\ ClickIdle

VncSpec == VncStart /\ [][VncNext]_vars

ClickStart == ClickInit /\ EnvdIdle /\ WaitIdle /\ KeyIdle /\ VncIdle

ClickSpec == ClickStart /\ [][ClickNext]_vars

\* A probe whose result satisfies the predicate: the command exited with 0
\* and on_result holds of its result.
Satisfying(h) == h.result.exit_code = 0 /\ OnResult(on_result, h.result)

Attempts == Len(history)

\* C4: _wait_and_verify returns true at the first probe that satisfies the
\* predicate and issues no probe after it; it returns false only with
\* elapsed >= timeout and no satisfying probe, and does not raise.
C4_WaitResult ==
    /\ w_pc # "raised"
    /\ \A i \in 1..Attempts :
          Satisfying(history[i]) =>
             i = Attempts /\ w_pc = "done" /\ ret = Some(TRUE)
    /\ ret = Some(TRUE) => Attempts >= 1 /\ Satisfying(history[Attempts])
    /\ ret = Some(FALSE) =>
          /\ elapsed >= timeout
          /\ \A i \in 1..Attempts : ~Satisfying(history[i])
    /\ (w_pc = "loop" /\ elapsed >= timeout) => ENABLED WaitReturnFalse
    /\ (w_pc = "done") <=> (ret # None)

\* The second probe satisfies the predicate, before the timeout.
C4_Witness ==
    /\ ret = Some(TRUE)
    /\ Attempts = 2
    /\ on_result = "exit_zero"
    /\ history[1].result.exit_code = 1
    /\ elapsed < timeout

\* C5: when no probe satisfies the predicate the wait ends with false after
\* ceil(timeout / interval) probes, within one of timeout / interval; one
\* sleep of interval separates consecutive probes, and no probe is issued
\* once elapsed has reached timeout.
C5_BoundedAttempts ==
    /\ \A i \in 1..Attempts :
          /\ history[i].at < timeout
          /\ history[i].sleeps = i - 1
          /\ history[i].at = (i - 1) * interval
    /\ ret = Some(FALSE) =>
          /\ (Attempts - 1) * interval < timeout
          /\ Attempts * interval >= timeout
          /\ sleeps = Attempts
          /\ elapsed = Attempts * interval
    /\ (w_pc \in {"loop", "sleep"} /\ \A i \in 1..Attempts : ~Satisfying(history[i])) =>
          ENABLED WaitNext

\* timeout 5 and interval 2: three probes, then false.
C5_Witness ==
    /\ ret = Some(FALSE)
    /\ timeout = 5 /\ interval = 2
    /\ Attempts = 3
    /\ sleeps = 3

\* C6: a probe that raises a command-exit error is one failed attempt and
\* does not end the wait: after k such probes and then a satisfying one
\* before the timeout, the wait returns true with exactly k + 1 attempts.
C6_ExitErrorsRetried ==
    /\ \A i \in 1..Attempts :
          history[i].result.exit_code # 0 =>
             /\ w_pc # "raised"
             /\ (i = Attempts => ret # Some(TRUE))
    /\ \A k \in 0..Attempts :
          ( /\ Attempts >= k + 1
            /\ \A i \in 1..k : history[i].result.exit_code # 0
            /\ Satisfying(history[k + 1]) )
          => (w_pc = "done" /\ ret = Some(TRUE) /\ Attempts = k + 1)

\* Exit codes 1, 1, 0 with stdout "", "", "LISTEN", timeout 5, interval 1.
C6_Witness ==
    /\ timeout = 5 /\ interval = 1 /\ on_result = "stdout_has_listen"
    /\ Attempts = 3
    /\ history[1].result = [exit_code |-> 1, stdout |-> ""]
    /\ history[2].result = [exit_code |-> 1, stdout |-> ""]
    /\ history[3].result = [exit_code |-> 0, stdout |-> "LISTEN"]
    /\ ret = Some(TRUE)

\* The trace headers of a response, whatever their casing.
TraceHeaders(r) ==
    {i \in 1..Len(r.headers) : LowerHeaderName(r.headers[i][1]) = "x-trace-id"}

\* The status-code table of the classifier, as the specification states it.
ExpectedKind(status_code) ==
    CASE status_code = 400 -> "InvalidArgument"
      [] status_code = 401 -> "AuthenticationFailed"
      [] status_code = 404 -> "NotFound"
      [] status_code = 502 -> "SandboxTimeout"
      [] status_code = 507 -> "InsufficientStorage"
      [] OTHER -> "Generic"

ExpectedMessage(status_code, m) ==
    CASE status_code \in {400, 401, 404, 502, 507} -> m
      [] status_code = 429 -> m \o ": The requests are being rate limited."
      [] OTHER -> ToString(status_code) \o ": " \o m

\* C1: the classifier returns no error for a success response, and for every
\* non-success response returns exactly one error whose kind and message
\* are fixed by the status code (400, 401, 404, 429, 502, 507, other).
C1_ClassifierTotal ==
    \A o \in {exc, aexc} :
        o # NotCalled =>
            IF is_success(res) THEN o = Returned(None)
            ELSE /\ o.t = "returned"
                 /\ o.value # None
                 /\ o.value[1].kind = ExpectedKind(res.status_code)
                 /\ \E m \in {res.body.text} \cup
                              (IF res.body.json.t = "object"
                                 THEN {res.body.json.fields[k] : k \in DOMAIN res.body.json.fields}
                                 ELSE {}) :
                        o.value[1].message = ExpectedMessage(res.status_code, m)

\* C2: for a non-success response get_message yields the `message` field of
\* a JSON object body that has one, and the raw text of a body that is not
\* valid JSON; in both cases it returns, and the error built carries it.
C2_MessageExtraction ==
    (exc # NotCalled /\ ~is_success(res)) =>
        /\ (res.body.json.t = "object" /\ "message" \in DOMAIN res.body.json.fields) =>
                /\ message = Returned(res.body.json.fields["message"])
                /\ exc.t = "returned" /\ exc.value # None
                /\ exc.value[1].message =
                       ExpectedMessage(res.status_code, res.body.json.fields["message"])
        /\ res.body.json.t = "invalid" =>
                /\ message = Returned(res.body.text)
                /\ exc.t = "returned" /\ exc.value # None
                /\ exc.value[1].message = ExpectedMessage(res.status_code, res.body.text)

\* A 404 whose JSON body has the message "boom".
C2_Witness ==
    /\ exc.t = "returned" /\ exc.value # None
    /\ res.status_code = 404
    /\ res.body.json.t = "object"
    /\ message = Returned("boom")
    /\ exc.value[1].message = "boom"

\* C3: every error the classifier builds, in every status-code branch, has
\* the value of the response's trace header as trace_id, and None when the
\* response has no trace header; both variants build the same error.
C3_TraceId ==
    /\ \A o \in {exc, aexc} :
          (o.t = "returned" /\ o.value # None) =>
             /\ TraceHeaders(res) = {} => o.value[1].trace_id = None
             /\ \A i \in TraceHeaders(res) :
                   TraceHeaders(res) = {i} => o.value[1].trace_id = Some(res.headers[i][2])
    /\ (exc # NotCalled /\ aexc # NotCalled) => exc = aexc

\* A 429 with a lower-case trace header, classified by both variants.
C3_Witness ==
    /\ exc.t = "returned" /\ exc.value # None
    /\ aexc = exc
    /\ res.status_code = 429
    /\ res.headers = <<(<<"x-trace-id", "t-1">>)>>
    /\ exc.value[1].trace_id = Some("t-1")
\* map_key as the specification states it: the table's symbol for a name
\* whose lower-cased form is in the table, the name itself otherwise.
ExpectedKey(k) == IF InKEYS(Lower(k)) THEN KEYS(Lower(k)) ELSE k

\* C7: map_key maps every casing of a name of the table to the table's
\* symbol, and returns every other name unchanged, so that press passes a
\* raw key symbol on as the caller gave it.
C7_MapKeyPassThrough ==
    key # None =>
        IF "str" \in DOMAIN key[1]
          THEN command = <<"xdotool key ", ExpectedKey(key[1].str)>>
          ELSE command = <<"xdotool key ",
                           JoinPlus([i \in 1..Len(key[1].list) |->
                                        ExpectedKey(key[1].list[i])])>>

\* The commands of a start() in their order, with and without a password file.
ExpectedStartCmds(auth) ==
    IF auth
      THEN <<"pgrep -x x11vnc", "mkdir -p ~/.vnc", "x11vnc -storepasswd",
             "x11vnc -bg", "novnc_proxy">>
      ELSE <<"pgrep -x x11vnc", "x11vnc -bg", "novnc_proxy">>

IsPrefix(a, b) == Len(a) <= Len(b) /\ \A i \in 1..Len(a) : a[i] = b[i]

CmdNames == [i \in 1..Len(cmds) |-> cmds[i].cmd]

\* C8: whatever its sub-steps do, also when the server process disappears
\* between the presence check and the kill command, a finished stop has
\* asked the server to terminate if it was found, and has killed and
\* cleared the tracked proxy handle.
C8_StopAlwaysStops ==
    (op.name = "stop" /\ vnc_pc = "idle") =>
        /\ cmds[1].found => \E i \in 1..Len(cmds) : cmds[i].cmd = "pkill x11vnc"
        /\ novnc_handle = None
        /\ pre.novnc_handle # None => procs[pre.novnc_handle[1]].state = "killed"

\* C9: a start() that finds the server process marker fails, whatever the
\* object's own state, and changes nothing: the ports, the auth flag, the
\* password, the URL and the tracked handle are as before, and no command
\* but the check has run. A start() that does not find it goes on.
C9_StartFailsWhenRunning ==
    op.name = "start" =>
        IF cmds[1].found
          THEN /\ result = Raised("RuntimeError")
               /\ vnc_pc = "idle"
               /\ Obj = pre
               /\ Len(cmds) = 1
               /\ w_pc = "idle"
          ELSE result # Raised("RuntimeError")

\* The server runs, started by another SDK instance: the object has launched
\* nothing, and its start() with new ports and a password fails.
C9_Witness ==
    /\ op.name = "start"
    /\ op.port # None /\ op.vnc_port # None /\ op.require_auth
    /\ result = Raised("RuntimeError")
    /\ procs = <<>>
    /\ starts = 1
    /\ x11vnc_running

GeneratedPasswords == {generate_password(n) : n \in 1..starts}

\* C11: whenever the authentication flag is set (the server is launched with
\* -usepw), a generated password is held: the password written to the
\* password file is a generated one, and get_auth_key returns it; it raises
\* only when authentication is not enabled.
C11_AuthPasswordHeld ==
    /\ novnc_auth_enabled =>
          novnc_password # None /\ novnc_password[1] \in GeneratedPasswords
    /\ \A i \in 1..Len(cmds) :
          cmds[i].cmd = "x11vnc -storepasswd" => cmds[i].password \in GeneratedPasswords
    /\ (op.name = "get_auth_key" /\ vnc_pc = "idle") =>
          IF novnc_auth_enabled
            THEN result.t = "returned" /\ result.value \in GeneratedPasswords
            ELSE result = Raised("RuntimeError")
\* The web-proxy processes this object launched and has not killed.
UnkilledProxies == {i \in 1..Len(procs) : procs[i].state # "killed"}

\* C12: every web-proxy process launched by the object and not yet killed is
\* the one held in the tracked handle, so at most one un-killed proxy exists.
C12_OneTrackedProxy ==
    /\ \A i \in UnkilledProxies : novnc_handle = Some(i)
    /\ Cardinality(UnkilledProxies) <= 1
\* C13: for each of the four click operations, when both x and y are given
\* (0 included) the mouse is moved to exactly (x, y) and then the click is
\* issued there; when neither is given only the click is issued; and a call
\* with exactly one of x and y is rejected with an error and runs nothing.
C13_ClickCoordinates ==
    click # None =>
        LET c == click[1] IN
            /\ (c.x # None /\ c.y # None) =>
                  /\ click_result = Returned(None)
                  /\ click_cmds = <<move_mouse(c.x[1], c.y[1]),
                                    ClickCmd(c.name, <<c.x[1], c.y[1]>>)>>
                  /\ mouse = <<c.x[1], c.y[1]>>
            /\ (c.x = None /\ c.y = None) =>
                  /\ click_result = Returned(None)
                  /\ click_cmds = <<ClickCmd(c.name, mouse)>>
            /\ ((c.x = None) # (c.y = None)) =>
                  /\ click_result.t = "raised"
                  /\ click_cmds = <<>>
====
